---- MODULE Spec2Model ----
(***************************************************************************)
(* photoMir: synchronisation of image metadata between a Cloud Storage     *)
(* bucket and the Firestore collection 'images' (src/main.py).             *)
(*                                                                         *)
(* Strings are sequences of one-character strings, so that endswith,       *)
(* basename, split and strip are computed character by character.          *)
(***************************************************************************)
EXTENDS Naturals, Sequences, FiniteSets

\* ------------------------------------------------------------------ bounds

\* number of times the program is run, one run after the other
MaxRuns == 2
\* longest response text of the tagging model, in SpecTag
MaxTextLen == 4
\* most objects in the bucket / most documents in the collection at the start
MaxObjects == 3
MaxDocs == 3

\* ----------------------------------------------------------------- strings

JPG == <<".", "j", "p", "g">>
JPEG == <<".", "j", "p", "e", "g">>
PNG == <<".", "p", "n", "g">>
\* the tuple given to str.endswith at main.py:73
ImageExtensions == {JPG, JPEG, PNG}

\* str.strip() with no argument strips whitespace
Whitespace == {" ", "\t", "\n"}

\* s[i:] of Python, i counted from 0
From(s, i) == SubSeq(s, i + 1, Len(s))

\* s.startswith(pre): how list_blobs(prefix=...) selects objects
StartsWith(s, pre) ==
    /\ Len(pre) <= Len(s)
    /\ SubSeq(s, 1, Len(pre)) = pre

\* s.endswith(suf)
EndsWith(s, suf) ==
    /\ Len(suf) <= Len(s)
    /\ From(s, Len(s) - Len(suf)) = suf

\* s.endswith(sufs) for a tuple of suffixes: one of them ends s
EndsWithAny(s, sufs) == \E suf \in sufs : EndsWith(s, suf)

\* p.rfind('/') + 1: 0 when p holds no '/'
RFindSlash(p) ==
    LET at == {k \in 1..Len(p) : p[k] = "/"}
    IN  IF at = {} THEN 0 ELSE CHOOSE k \in at : \A j \in at : j <= k

\* os.path.basename(p) (posixpath): p[p.rfind('/') + 1:]
Basename(p) == From(p, RFindSlash(p))

\* s.find(','), counted from 1; 0 when s holds no comma
FindComma(s) ==
    LET at == {k \in 1..Len(s) : s[k] = ","}
    IN  IF at = {} THEN 0 ELSE CHOOSE k \in at : \A j \in at : k <= j

\* s.split(','): the segments between the commas, empty ones kept
RECURSIVE SplitComma(_)
SplitComma(s) ==
    LET k == FindComma(s)
    IN  IF k = 0 THEN <<s>>
        ELSE <<SubSeq(s, 1, k - 1)>> \o SplitComma(From(s, k))

\* s.lstrip(), s.rstrip(), s.strip()
RECURSIVE LStrip(_)
LStrip(s) ==
    IF s # <<>> /\ s[1] \in Whitespace THEN LStrip(Tail(s)) ELSE s

RECURSIVE RStrip(_)
RStrip(s) ==
    IF s # <<>> /\ s[Len(s)] \in Whitespace
    THEN RStrip(SubSeq(s, 1, Len(s) - 1))
    ELSE s

Strip(s) == RStrip(LStrip(s))

\* [tag.strip() for tag in text.split(',') if tag.strip()]
StripAll(segs) == [k \in 1..Len(segs) |-> Strip(segs[k])]
NonEmpty(s) == s # <<>>

\* main.py:99-102: all_tags_en from response.text
ParseTags_keepempty(t) == IF t # <<>> THEN StripAll(SplitComma(t)) ELSE <<>>
ParseTags(t) ==
    IF t # <<>> THEN SelectSeq(StripAll(SplitComma(t)), NonEmpty) ELSE <<>>

\* the translation service: one translated string per submitted string, in
\* order (main.py:107-108); the translated text is a tagged copy
TranslatedText(t) == <<"#">> \o t
Translate(tags) == [k \in 1..Len(tags) |-> TranslatedText(tags[k])]

\* all strings over alphabet of length at most n
RECURSIVE StringsUpTo(_, _)
StringsUpTo(alphabet, n) ==
    IF n = 0 THEN {<<>>}
    ELSE LET shorter == StringsUpTo(alphabet, n - 1)
         IN  shorter \cup {<<c>> \o s : c \in alphabet, s \in shorter}

\* ------------------------------------------------------------------- state

VARIABLES
    prefix,             \* BUCKET_FOLDER_PATH
    bucket,             \* the names of the objects of BUCKET_NAME
    store,              \* collection 'images': document id -> document
    texts,              \* the texts the tagging model may answer with
    procs,              \* the running instances of the program
    clock,              \* datetime.now(timezone.utc), a logical clock
    pc,                 \* where each instance is in main()
    run,                \* which run of the program this is, from 1
    previous,           \* how the run before this one ended
    store_before,       \* the collection as it was when this run started
    storage_image_ids,  \* main.py:131
    firestore_doc_ids,  \* main.py:134
    deleted_image_ids,  \* main.py:139
    new_image_ids,      \* main.py:151
    delete_iter,        \* ids the loop of main.py:142 has yet to visit
    create_iter,        \* ids the loop of main.py:157 has yet to visit
    file_id,            \* the loop variable of main.py:157
    response,           \* <<response.text>> of main.py:90, <<>> before it
    all_tags_en,        \* main.py:99-102
    metadata,           \* the dictionary get_image_metadata returns
    translate_calls,    \* arguments of translate() for the current image
    calls               \* the remote calls this run has issued, and its errors

env == <<prefix, bucket, texts, procs>>
locals == <<storage_image_ids, firestore_doc_ids, deleted_image_ids,
            new_image_ids, delete_iter, create_iter, file_id, response,
            all_tags_en, metadata, translate_calls>>
history == <<previous, store_before>>
vars == <<env, store, clock, pc, run, history, locals, calls>>

NoCalls == [delete |-> {}, fetch |-> {}, tag |-> {}, translate |-> {},
            save |-> {}, saved |-> {}, error |-> {}, delete_error |-> {},
            list_error |-> FALSE]
NoString == <<>>
NoMetadata == [file_id |-> NoString, file_name |-> NoString,
               tags_en |-> <<>>, tags_pt |-> <<>>, processed_at |-> 0]

\* a document left by an earlier run: its key is the basename of its path
InitialDocument(k) == [file_id |-> k, file_name |-> k, tags_en |-> <<>>,
                       tags_pt |-> <<>>, processed_at |-> 0]

\* ------------------------------------------------------- the pure functions

\* bucket.list_blobs(prefix=folder_path): the objects whose name starts with it
ListBlobs(objects, folder_path) ==
    {name \in objects : StartsWith(name, folder_path)}

\* main.py:73-74: the blobs that list_images_in_bucket keeps
IsListed_nomarker(name, folder_path) == EndsWithAny(name, ImageExtensions)
IsListed(name, folder_path) ==
    /\ EndsWithAny(name, ImageExtensions)
    /\ name # folder_path

\* list_images_in_bucket(bucket_name, folder_path), main.py:66-76
ListImages(objects, folder_path) ==
    {Basename(name) : name \in
        {b \in ListBlobs(objects, folder_path) : IsListed(b, folder_path)}}

\* f"{BUCKET_FOLDER_PATH}{file_id}", main.py:158
FileNameWithPath(id) == prefix \o id

\* the dictionary of main.py:112-118
Assemble(path, tags_en, tags_pt, now) ==
    [file_id |-> Basename(path), file_name |-> path, tags_en |-> tags_en,
     tags_pt |-> tags_pt, processed_at |-> now]

\* doc_ref.set(metadata): create or replace the document metadata['file_id']
Set(docs, m) ==
    [k \in DOMAIN docs \cup {m.file_id} |-> IF k = m.file_id THEN m ELSE docs[k]]

\* document(file_id).delete(): deleting an absent document is no error
Delete(docs, id) == [k \in DOMAIN docs \ {id} |-> docs[k]]

\* main.py:106: if all_tags_en
NeedsTranslation_always(tags) == TRUE
NeedsTranslation(tags) == tags # <<>>

\* main.py:139 and main.py:151
DeletedImageIds(stored, present) == stored \ present
NewImageIds_all(present, stored) == present
NewImageIds_relisted(present, stored) == present \ DOMAIN store
NewImageIds(present, stored) == present \ stored

\* where main() goes on after the except clause of main.py:146-147 and of
\* main.py:163-164: the next iteration of the same loop
AfterDeleteError == "delete"
AfterCreateError_halt == "crashed"
AfterCreateError == "create"

\* where main() goes on after the except clause of main.py:135-137: return
AfterStoreListingError_goon == "delete"
AfterStoreListingError == "aborted"

\* ------------------------------------------------------------------ actions

Log(i, field, x) == [calls EXCEPT ![i][field] = @ \cup {x}]

\* main.py:131: the listing of the bucket; its failure is not caught
ListStorage(i) ==
    /\ pc[i] = "start"
    /\ \/ /\ storage_image_ids' =
                [storage_image_ids EXCEPT ![i] = ListImages(bucket, prefix)]
          /\ pc' = [pc EXCEPT ![i] = "list_store"]
       \/ /\ pc' = [pc EXCEPT ![i] = "crashed"]
          /\ UNCHANGED storage_image_ids
    /\ UNCHANGED <<env, store, clock, run, history, firestore_doc_ids,
                   deleted_image_ids, new_image_ids, delete_iter, create_iter,
                   file_id, response, all_tags_en, metadata, translate_calls,
                   calls>>

\* main.py:133-139: the listing of the collection, then the ids to delete
ListStore(i) ==
    /\ pc[i] = "list_store"
    /\ \/ /\ firestore_doc_ids' = [firestore_doc_ids EXCEPT ![i] = DOMAIN store]
          /\ deleted_image_ids' = [deleted_image_ids EXCEPT ![i] =
                DeletedImageIds(DOMAIN store, storage_image_ids[i])]
          /\ delete_iter' = [delete_iter EXCEPT ![i] =
                DeletedImageIds(DOMAIN store, storage_image_ids[i])]
          /\ pc' = [pc EXCEPT ![i] = "delete"]
          /\ UNCHANGED calls
       \/ /\ pc' = [pc EXCEPT ![i] = AfterStoreListingError]
          /\ calls' = [calls EXCEPT ![i].list_error = TRUE]
          /\ UNCHANGED <<firestore_doc_ids, deleted_image_ids, delete_iter>>
    /\ UNCHANGED <<env, store, clock, run, history, storage_image_ids,
                   new_image_ids, create_iter, file_id, response, all_tags_en,
                   metadata, translate_calls>>

\* main.py:142-147: one iteration of the delete loop
DeleteRecord(i) ==
    /\ pc[i] = "delete"
    /\ \E id \in delete_iter[i] :
        /\ delete_iter' = [delete_iter EXCEPT ![i] = @ \ {id}]
        /\ \/ /\ store' = Delete(store, id)
              /\ calls' = Log(i, "delete", id)
              /\ UNCHANGED pc
           \/ /\ calls' = [calls EXCEPT ![i].delete = @ \cup {id},
                                        ![i].delete_error = @ \cup {id}]
              /\ pc' = [pc EXCEPT ![i] = AfterDeleteError]
              /\ UNCHANGED store
    /\ UNCHANGED <<env, clock, run, history, storage_image_ids,
                   firestore_doc_ids, deleted_image_ids, new_image_ids,
                   create_iter, file_id, response, all_tags_en, metadata,
                   translate_calls>>

\* main.py:148-155: the delete loop is over; the ids to create
DeleteLoopEnd(i) ==
    /\ pc[i] = "delete"
    /\ delete_iter[i] = {}
    /\ new_image_ids' = [new_image_ids EXCEPT ![i] =
            NewImageIds(storage_image_ids[i], firestore_doc_ids[i])]
    /\ create_iter' = [create_iter EXCEPT ![i] =
            NewImageIds(storage_image_ids[i], firestore_doc_ids[i])]
    /\ pc' = [pc EXCEPT ![i] = "create"]
    /\ UNCHANGED <<env, store, clock, run, history, storage_image_ids,
                   firestore_doc_ids, deleted_image_ids, delete_iter, file_id,
                   response, all_tags_en, metadata, translate_calls, calls>>

\* main.py:157-161 and 81-86: the next id of the create loop, and the
\* download of its object, which fails when there is no such object
Fetch(i) ==
    /\ pc[i] = "create"
    /\ \E id \in create_iter[i] :
        /\ create_iter' = [create_iter EXCEPT ![i] = @ \ {id}]
        /\ file_id' = [file_id EXCEPT ![i] = id]
        /\ translate_calls' = [translate_calls EXCEPT ![i] = <<>>]
        /\ response' = [response EXCEPT ![i] = <<>>]
        /\ all_tags_en' = [all_tags_en EXCEPT ![i] = <<>>]
        /\ \/ /\ FileNameWithPath(id) \in bucket
              /\ calls' = Log(i, "fetch", FileNameWithPath(id))
              /\ pc' = [pc EXCEPT ![i] = "tag"]
           \/ /\ calls' = [calls EXCEPT
                    ![i].fetch = @ \cup {FileNameWithPath(id)},
                    ![i].error = @ \cup {id}]
              /\ pc' = [pc EXCEPT ![i] = AfterCreateError]
    /\ UNCHANGED <<env, store, clock, run, history, storage_image_ids,
                   firestore_doc_ids, deleted_image_ids, new_image_ids,
                   delete_iter, metadata>>

\* main.py:110-118: the dictionary is assembled and returned to main()
AssembleNow(i, tags_en, tags_pt) ==
    /\ metadata' = [metadata EXCEPT ![i] =
            Assemble(FileNameWithPath(file_id[i]), tags_en, tags_pt, clock + 1)]
    /\ clock' = clock + 1
    /\ pc' = [pc EXCEPT ![i] = "save"]

\* main.py:89-102: the call of the tagging model and the parsing of its text
Tag(i) ==
    /\ pc[i] = "tag"
    /\ \/ \E t \in texts :
            /\ response' = [response EXCEPT ![i] = <<t>>]
            /\ all_tags_en' = [all_tags_en EXCEPT ![i] = ParseTags(t)]
            /\ calls' = Log(i, "tag", FileNameWithPath(file_id[i]))
            /\ IF NeedsTranslation(ParseTags(t))
               THEN /\ pc' = [pc EXCEPT ![i] = "translate"]
                    /\ UNCHANGED <<metadata, clock>>
               ELSE AssembleNow(i, ParseTags(t), <<>>)
       \/ /\ calls' = [calls EXCEPT
                ![i].tag = @ \cup {FileNameWithPath(file_id[i])},
                ![i].error = @ \cup {file_id[i]}]
          /\ pc' = [pc EXCEPT ![i] = AfterCreateError]
          /\ UNCHANGED <<response, all_tags_en, metadata, clock>>
    /\ UNCHANGED <<env, store, run, history, storage_image_ids,
                   firestore_doc_ids, deleted_image_ids, new_image_ids,
                   delete_iter, create_iter, file_id, translate_calls>>

\* main.py:106-118: the one batched call of the translation service
TranslateTags(i) ==
    /\ pc[i] = "translate"
    /\ translate_calls' = [translate_calls EXCEPT ![i] = Append(@, all_tags_en[i])]
    /\ \/ /\ calls' = Log(i, "translate", FileNameWithPath(file_id[i]))
          /\ AssembleNow(i, all_tags_en[i], Translate(all_tags_en[i]))
       \/ /\ calls' = [calls EXCEPT
                ![i].translate = @ \cup {FileNameWithPath(file_id[i])},
                ![i].error = @ \cup {file_id[i]}]
          /\ pc' = [pc EXCEPT ![i] = AfterCreateError]
          /\ UNCHANGED <<metadata, clock>>
    /\ UNCHANGED <<env, store, run, history, storage_image_ids,
                   firestore_doc_ids, deleted_image_ids, new_image_ids,
                   delete_iter, create_iter, file_id, response, all_tags_en>>

\* main.py:162 and 120-125: save_metadata_to_firestore(metadata)
SaveRecord(i) ==
    /\ pc[i] = "save"
    /\ \/ /\ store' = Set(store, metadata[i])
          /\ calls' = [calls EXCEPT ![i].save = @ \cup {metadata[i]},
                                    ![i].saved = @ \cup {file_id[i]}]
          /\ pc' = [pc EXCEPT ![i] = "create"]
       \/ /\ calls' = [calls EXCEPT ![i].save = @ \cup {metadata[i]},
                                    ![i].error = @ \cup {file_id[i]}]
          /\ pc' = [pc EXCEPT ![i] = AfterCreateError]
          /\ UNCHANGED store
    /\ UNCHANGED <<env, clock, run, history, locals>>

\* main.py:165-168: the create loop is over
CreateLoopEnd(i) ==
    /\ pc[i] = "create"
    /\ create_iter[i] = {}
    /\ pc' = [pc EXCEPT ![i] = "done"]
    /\ UNCHANGED <<env, store, clock, run, history, locals, calls>>

Ended(i) == pc[i] \in {"done", "aborted", "crashed"}

\* main.py:170-171: the program is started again, storage as it was
RunAgain(i) ==
    /\ Ended(i)
    /\ run[i] < MaxRuns
    /\ run' = [run EXCEPT ![i] = @ + 1]
    /\ previous' = [previous EXCEPT ![i] =
            [ended |-> pc[i],
             synced |-> (DOMAIN store = ListImages(bucket, prefix))]]
    /\ store_before' = [store_before EXCEPT ![i] = store]
    /\ pc' = [pc EXCEPT ![i] = "start"]
    /\ storage_image_ids' = [storage_image_ids EXCEPT ![i] = {}]
    /\ firestore_doc_ids' = [firestore_doc_ids EXCEPT ![i] = {}]
    /\ deleted_image_ids' = [deleted_image_ids EXCEPT ![i] = {}]
    /\ new_image_ids' = [new_image_ids EXCEPT ![i] = {}]
    /\ delete_iter' = [delete_iter EXCEPT ![i] = {}]
    /\ create_iter' = [create_iter EXCEPT ![i] = {}]
    /\ file_id' = [file_id EXCEPT ![i] = NoString]
    /\ response' = [response EXCEPT ![i] = <<>>]
    /\ all_tags_en' = [all_tags_en EXCEPT ![i] = <<>>]
    /\ metadata' = [metadata EXCEPT ![i] = NoMetadata]
    /\ translate_calls' = [translate_calls EXCEPT ![i] = <<>>]
    /\ calls' = [calls EXCEPT ![i] = NoCalls]
    /\ UNCHANGED <<env, store, clock>>

Next ==
    \/ \E i \in procs : ListStorage(i)
    \/ \E i \in procs : ListStore(i)
    \/ \E i \in procs : DeleteRecord(i)
    \/ \E i \in procs : DeleteLoopEnd(i)
    \/ \E i \in procs : Fetch(i)
    \/ \E i \in procs : Tag(i)
    \/ \E i \in procs : TranslateTags(i)
    \/ \E i \in procs : SaveRecord(i)
    \/ \E i \in procs : CreateLoopEnd(i)
    \/ \E i \in procs : RunAgain(i)

\* ----------------------------------------------------------- initial states

A_JPG == <<"a">> \o JPG
B_PNG == <<"b">> \o PNG
C_JPEG == <<"c">> \o JPEG
PA_JPG == <<"p", "a">> \o JPG
P_A_JPG == <<"p", "/", "a">> \o JPG
P_B_PNG == <<"p", "/", "b">> \o PNG

\* values of BUCKET_FOLDER_PATH: the default '', a folder, a bare prefix
Prefixes == {<<>>, <<"p", "/">>, <<"p">>}
ObjectNames == {A_JPG, P_A_JPG, P_B_PNG, PA_JPG}
DocumentIds == {A_JPG, B_PNG, PA_JPG, C_JPEG}
ResponseTexts == {<<>>, <<",", " ">>, <<"a", ",", " ", "b", ",">>}

InitWith(ps, prefixes, names, ids, txts) ==
    /\ procs = ps
    /\ prefix \in prefixes
    /\ bucket \in {b \in SUBSET names : Cardinality(b) <= MaxObjects}
    /\ store \in {[k \in ks |-> InitialDocument(k)] :
                    ks \in {s \in SUBSET ids : Cardinality(s) <= MaxDocs}}
    /\ texts = txts
    /\ clock = 0
    /\ pc = [i \in ps |-> "start"]
    /\ run = [i \in ps |-> 1]
    /\ previous = [i \in ps |-> [ended |-> "none", synced |-> FALSE]]
    /\ store_before = [i \in ps |-> store]
    /\ storage_image_ids = [i \in ps |-> {}]
    /\ firestore_doc_ids = [i \in ps |-> {}]
    /\ deleted_image_ids = [i \in ps |-> {}]
    /\ new_image_ids = [i \in ps |-> {}]
    /\ delete_iter = [i \in ps |-> {}]
    /\ create_iter = [i \in ps |-> {}]
    /\ file_id = [i \in ps |-> NoString]
    /\ response = [i \in ps |-> <<>>]
    /\ all_tags_en = [i \in ps |-> <<>>]
    /\ metadata = [i \in ps |-> NoMetadata]
    /\ translate_calls = [i \in ps |-> <<>>]
    /\ calls = [i \in ps |-> NoCalls]

\* one instance of the program, run MaxRuns times
Init == InitWith({1}, Prefixes, ObjectNames, DocumentIds, ResponseTexts)
Spec == Init /\ [][Next]_vars

\* the tagging pipeline on one image, the model answering with any text of
\* at most MaxTextLen characters
TagAlphabet == {"a", "b", " ", ","}
InitTag ==
    InitWith({1}, {<<>>}, {A_JPG}, {C_JPEG}, StringsUpTo(TagAlphabet, MaxTextLen))
SpecTag == InitTag /\ [][Next]_vars

\* the listing of a bucket that holds a folder marker, a nested folder, a
\* name in capitals, a name that is no image and a name outside the folder
P_MARKER == <<"p", "/">>
P_S_B_PNG == <<"p", "/", "s", "/", "b">> \o PNG
P_C_JPEG == <<"p", "/", "c">> \o JPEG
P_N_TXT == <<"p", "/", "n", ".", "t", "x", "t">>
P_CAPITALS == <<"p", "/", "A", ".", "J", "P", "G">>
Q_A_JPG == <<"q", "/", "a">> \o JPG
P_A_JPG_PNG == P_A_JPG \o PNG
ListPrefixes == {<<>>, P_MARKER, P_A_JPG}
ListNames == {P_MARKER, P_A_JPG, P_S_B_PNG, P_C_JPEG, P_N_TXT, P_CAPITALS,
              Q_A_JPG, P_A_JPG_PNG}
InitList == InitWith({1}, ListPrefixes, ListNames, {C_JPEG}, {<<"a">>})
SpecList == InitList /\ [][Next]_vars

\* two instances of the program at once, on the same bucket and collection
InitConc ==
    InitWith({1, 2}, {P_MARKER}, {P_A_JPG}, {A_JPG, C_JPEG}, {<<"a">>})
SpecConc == InitConc /\ [][Next]_vars

\* ------------------------------------------------------------------ claims

\* the run of instance i has met no failure so far
Clean(i) ==
    /\ calls[i].error = {}
    /\ calls[i].delete_error = {}
    /\ ~calls[i].list_error

\* instance i has listed both the bucket and the collection in this run
Listed(i) == pc[i] \in {"delete", "create", "tag", "translate", "save", "done"}

\* instance i has issued no delete, tag, translate or save call in this run
NoMutation(i) ==
    /\ calls[i].delete = {}
    /\ calls[i].tag = {}
    /\ calls[i].translate = {}
    /\ calls[i].save = {}

\* C1: after a run that completes without any failure, the set of document
\* ids of the collection equals the set of image ids listed from the bucket.
C1_KeysEqualIds ==
    \A i \in procs :
        (pc[i] = "done" /\ Clean(i)) => DOMAIN store = storage_image_ids[i]

C3_AbortOnStoreListingFailure ==
    \A i \in procs :
        calls[i].list_error =>
            /\ pc[i] = "aborted"
            /\ NoMutation(i)
            /\ calls[i].fetch = {}
            /\ store = store_before[i]

C3_Witness ==
    /\ pc[1] = "aborted"
    /\ calls[1].list_error
    /\ storage_image_ids[1] # {}
    /\ DOMAIN store \ storage_image_ids[1] # {}
    /\ storage_image_ids[1] \ DOMAIN store # {}

\* the record of id, processed in this run, is in the collection
Persisted(i, id) ==
    \E m \in calls[i].save :
        /\ m.file_name = FileNameWithPath(id)
        /\ m.file_id \in DOMAIN store
        /\ store[m.file_id] = m

\* C4: no failure of one item halts the batch: the run never stops on a
\* failed item, every id to delete is visited by the delete loop and every id
\* to create by the create loop; at the end every id to delete has had its
\* delete call, every id to create has been fetched, and each one whose own
\* steps all succeeded is persisted.
C4_Isolation ==
    \A i \in procs :
        /\ pc[i] = "crashed" => calls[i] = NoCalls
        /\ Listed(i) => deleted_image_ids[i] = calls[i].delete \cup delete_iter[i]
        /\ pc[i] \in {"create", "done"} =>
                new_image_ids[i] = calls[i].saved \cup calls[i].error \cup create_iter[i]
        /\ pc[i] = "done" =>
            /\ \A id \in deleted_image_ids[i] : id \in calls[i].delete
            /\ \A id \in new_image_ids[i] :
                /\ FileNameWithPath(id) \in calls[i].fetch
                /\ id \notin calls[i].error => Persisted(i, id)

C4_Witness ==
    /\ pc[1] = "done"
    /\ calls[1].delete_error # {}
    /\ calls[1].delete \ calls[1].delete_error # {}
    /\ calls[1].error # {}
    /\ \E id \in calls[1].saved : Persisted(1, id)

\* C5: an id that is both in the bucket and in the collection is left alone:
\* delete calls go to ids of stored - present only, the calls of the pipeline
\* and the save to ids of present - stored only, the document of a common id
\* is neither deleted nor overwritten, and when present = stored the run
\* issues no delete, tag, translate or save call.
C5_CommonUntouched ==
    \A i \in procs :
        Listed(i) =>
            /\ calls[i].delete \subseteq firestore_doc_ids[i] \ storage_image_ids[i]
            /\ \A path \in calls[i].fetch \cup calls[i].tag \cup calls[i].translate :
                    \E id \in storage_image_ids[i] \ firestore_doc_ids[i] :
                        path = FileNameWithPath(id)
            /\ \A m \in calls[i].save :
                    m.file_id \in storage_image_ids[i] \ firestore_doc_ids[i]
            /\ \A k \in storage_image_ids[i] \cap firestore_doc_ids[i] :
                    /\ k \in DOMAIN store
                    /\ store[k] = store_before[i][k]
            /\ storage_image_ids[i] = firestore_doc_ids[i] => NoMutation(i)

\* the text holds nothing but commas and whitespace
Blank(t) == \A k \in 1..Len(t) : t[k] \in Whitespace \cup {","}

\* C6: when the tagging model answers with an empty text, or one that holds
\* no tag, the translation service is not called for the image, the pipeline
\* does not fail and returns a record with tags_en = [] and tags_pt = [];
\* otherwise the translation service is called once, with the whole list.
C6_EmptyTagPath ==
    \A i \in procs :
        /\ (response[i] # <<>> /\ Blank(response[i][1])) =>
                /\ translate_calls[i] = <<>>
                /\ pc[i] \in {"save", "create", "done"}
                /\ metadata[i].file_name = FileNameWithPath(file_id[i])
                /\ metadata[i].tags_en = <<>>
                /\ metadata[i].tags_pt = <<>>
        /\ (response[i] # <<>> /\ ~Blank(response[i][1])) =>
                /\ all_tags_en[i] # <<>>
                /\ pc[i] = "translate" => translate_calls[i] = <<>>
                /\ pc[i] # "translate" => translate_calls[i] = <<all_tags_en[i]>>
                /\ pc[i] = "save" =>
                        /\ metadata[i].tags_en = all_tags_en[i]
                        /\ Len(metadata[i].tags_pt) = Len(all_tags_en[i])

C6_Witness ==
    /\ pc[1] = "save"
    /\ response[1] = <<<<" ", ",", " ">>>>
    /\ translate_calls[1] = <<>>
    /\ metadata[1].tags_en = <<>>

\* the places of the tags of a text: a stretch with no comma in it, its ends
\* not whitespace, with nothing but whitespace between it and the commas (or
\* ends of the text) around it
IsTagAt(t, a, b) ==
    /\ a <= b
    /\ \A k \in a..b : t[k] # ","
    /\ t[a] \notin Whitespace
    /\ t[b] \notin Whitespace
    /\ \A k \in 1..(a - 1) :
            (\A j \in k..(a - 1) : t[j] # ",") => t[k] \in Whitespace
    /\ \A k \in (b + 1)..Len(t) :
            (\A j \in (b + 1)..k : t[j] # ",") => t[k] \in Whitespace

TagPlaces(t) ==
    {w \in (1..Len(t)) \X (1..Len(t)) : IsTagAt(t, w[1], w[2])}

\* the tags of a text, in the order of the text
TagsInOrder(t) ==
    LET places == TagPlaces(t)
        nth(k) == CHOOSE w \in places :
                    Cardinality({v \in places : v[1] < w[1]}) = k - 1
    IN  [k \in 1..Cardinality(places) |-> SubSeq(t, nth(k)[1], nth(k)[2])]

\* C7: tags_en is the sequence of the comma-separated segments of the text, in
\* their order, each trimmed of the whitespace around it, the segments that
\* are empty once trimmed dropped; no tag is empty or only whitespace.
C7_TagParsing ==
    \A i \in procs :
        response[i] # <<>> =>
            /\ all_tags_en[i] = TagsInOrder(response[i][1])
            /\ \A k \in 1..Len(all_tags_en[i]) :
                    \E c \in 1..Len(all_tags_en[i][k]) :
                        all_tags_en[i][k][c] \notin Whitespace

C7_Witness ==
    /\ response[1] = <<<<"b", ",", " ", "a">>>>
    /\ all_tags_en[1] = <<<<"b">>, <<"a">>>>

\* x is the last path segment of name
IsLastSegment(x, name) ==
    \E d \in 0..Len(name) :
        /\ x = SubSeq(name, d + 1, Len(name))
        /\ \A k \in 1..Len(x) : x[k] # "/"
        /\ d = 0 \/ name[d] = "/"

\* name is an object that the listing is to return the basename of
IsImageUnder(name, folder_path) ==
    /\ Len(folder_path) <= Len(name)
    /\ \A k \in 1..Len(folder_path) : name[k] = folder_path[k]
    /\ \E d \in 0..Len(name) : SubSeq(name, d + 1, Len(name)) \in ImageExtensions
    /\ name # folder_path

\* C8: the listing is the set of the last path segments of the objects under
\* the prefix whose name ends in .jpg, .jpeg or .png and is not the prefix
\* itself; it holds no name with another extension and no path.
C8_Listing ==
    \A i \in procs :
        (Listed(i) \/ pc[i] \in {"list_store", "aborted"}) =>
            /\ \A x \in storage_image_ids[i] :
                    \E name \in bucket :
                        IsImageUnder(name, prefix) /\ IsLastSegment(x, name)
            /\ \A name \in bucket :
                    IsImageUnder(name, prefix) =>
                        \E x \in storage_image_ids[i] : IsLastSegment(x, name)
            /\ \A x \in storage_image_ids[i] :
                    /\ \A k \in 1..Len(x) : x[k] # "/"
                    /\ EndsWithAny(x, ImageExtensions)

C8_Witness ==
    /\ pc[1] = "list_store"
    /\ prefix = P_A_JPG
    /\ bucket = {P_A_JPG, P_A_JPG_PNG, P_S_B_PNG}
    /\ storage_image_ids[1] = {<<"a">> \o JPG \o PNG}

\* C9: for each id to create the steps run in the order fetch, tag,
\* translate, assemble, save on the path prefix + id; the save comes only
\* after the earlier steps succeeded for that id, an id with a failed step
\* gets no record in this run, and every record saved has file_id equal to
\* the id processed and file_name equal to prefix + id.
C9_PipelineOrder ==
    \A i \in procs :
        /\ pc[i] \in {"tag", "translate", "save"} =>
                /\ FileNameWithPath(file_id[i]) \in calls[i].fetch
                /\ file_id[i] \notin calls[i].error
        /\ pc[i] \in {"translate", "save"} =>
                FileNameWithPath(file_id[i]) \in calls[i].tag
        /\ pc[i] = "save" =>
                /\ metadata[i].tags_en # <<>> =>
                        FileNameWithPath(file_id[i]) \in calls[i].translate
                /\ metadata[i].file_id = file_id[i]
                /\ metadata[i].file_name = FileNameWithPath(file_id[i])
        /\ calls[i].error \cap calls[i].saved = {}
        /\ \A m \in calls[i].save :
                \E id \in new_image_ids[i] :
                    /\ m.file_id = id
                    /\ m.file_name = FileNameWithPath(id)

\* C10: nothing keeps two instances apart: each one carries out all the work
\* of its own two listings, whatever the other has done since; an id that
\* both found new is tagged and saved by both, a document that both found
\* orphaned gets a delete call from both.
C10_NoMutualExclusion ==
    \A i \in procs :
        pc[i] = "done" =>
            /\ \A id \in storage_image_ids[i] \ firestore_doc_ids[i] :
                    \/ id \in calls[i].error
                    \/ /\ id \in calls[i].saved
                       /\ FileNameWithPath(id) \in calls[i].tag
            /\ \A id \in firestore_doc_ids[i] \ storage_image_ids[i] :
                    id \in calls[i].delete

C10_Witness ==
    /\ run = [i \in procs |-> 1]
    /\ \E id \in calls[1].saved \cap calls[2].saved :
            /\ id \notin firestore_doc_ids[1] \cup firestore_doc_ids[2]
            /\ FileNameWithPath(id) \in calls[1].tag \cap calls[2].tag
    /\ \E id \in calls[1].delete \cap calls[2].delete :
            id \notin calls[1].delete_error \cup calls[2].delete_error

====
